---- MODULE Spec2Model ----
(***************************************************************************)
(* Tabbed text editor (src/main.cpp, lines 1-683): the tab widget with its *)
(* editors (document sessions), file open/save, the find/replace slots,    *)
(* the close prompts and the deferred start-up document.                   *)
(*                                                                         *)
(* Text is a sequence of characters; cursor positions are Qt offsets       *)
(* 0..Len(text).  A path is the sequence of its components, the empty      *)
(* sequence being the empty QString.  Tab indices are 1-based here (Qt's   *)
(* index i is i+1), and cur = 0 stands for Qt's currentIndex() == -1.      *)
(*                                                                         *)
(* The file system is the environment: whether a file opens for reading or *)
(* writing, and what a read returns, is an input of the call.  Undo/redo   *)
(* of the text widget is not modelled.                                     *)
(***************************************************************************)
EXTENDS Integers, Sequences, FiniteSets, TLC

\* ---------------------------------------------------------------- bounds
MaxTabs == 2
MaxDoc == 1
MaxLen == 3
MaxQ == 2
MaxR == 1
MaxArgs == 1

\* ------------------------------------------------------------- alphabets
Chars == {"a", "A", "b"}
DocChars == {"a"}
Paths == {<<"a.txt">>, <<"d", "b.txt">>}
NoPath == <<>>
Untitled == "Untitled"

Strs(n) == UNION {[1..k -> Chars] : k \in 0..n}
DocStrs(n) == UNION {[1..k -> DocChars] : k \in 0..n}

Min(a, b) == IF a < b THEN a ELSE b
Max(a, b) == IF a < b THEN b ELSE a

\* ------------------------------------------------------- string functions
\* QChar case folding, used by case-insensitive comparison
Fold(c) == IF c = "A" THEN "a" ELSE c

\* needle matches haystack at 0-based offset i
MatchAt(s, q, i, cs) ==
    /\ i >= 0
    /\ i + Len(q) <= Len(s)
    /\ \A k \in 1..Len(q) :
          IF cs THEN s[i + k] = q[k] ELSE Fold(s[i + k]) = Fold(q[k])

\* QString::indexOf(q, from, cs): first offset >= from where q matches, or -1
RECURSIVE IndexOf(_, _, _, _)
IndexOf(s, q, from, cs) ==
    IF from + Len(q) > Len(s) THEN -1
    ELSE IF MatchAt(s, q, from, cs) THEN from
    ELSE IndexOf(s, q, from + 1, cs)

\* QString::count(q): restarts the search one past each hit (i + 1), so
\* overlapping occurrences are all counted; case-sensitive by default
RECURSIVE CountFrom(_, _, _)
CountFrom(s, q, from) ==
    LET i == IndexOf(s, q, from, TRUE)
    IN  IF i = -1 THEN 0 ELSE 1 + CountFrom(s, q, i + 1)

count(s, q) == CountFrom(s, q, 0)

\* QString::replace(before, after): collects the hits left to right, the
\* search resuming after each hit (index += blen), then substitutes them all
RECURSIVE ReplaceFrom(_, _, _, _)
ReplaceFrom(s, q, r, from) ==
    LET i == IndexOf(s, q, from, TRUE)
    IN  IF i = -1 THEN SubSeq(s, from + 1, Len(s))
        ELSE SubSeq(s, from + 1, i) \o r \o ReplaceFrom(s, q, r, i + Len(q))

\* faulty variant: only the first occurrence is substituted
ReplaceOnce(s, q, r) ==
    LET i == IndexOf(s, q, 0, TRUE)
    IN  IF i = -1 THEN s
        ELSE SubSeq(s, 1, i) \o r \o SubSeq(s, i + Len(q) + 1, Len(s))
replace(s, q, r) == ReplaceFrom(s, q, r, 0)

\* QFileInfo(fileName).fileName(): the part after the last separator
FileName(p) == IF p = <<>> THEN "" ELSE p[Len(p)]

\* ------------------------------------------------------------------ state
VARIABLES
    tabs,          \* tabWidget: sequence of editors, in tab order
    cur,           \* tabWidget->currentIndex(), 0 when there is no tab
    btrue,         \* global flag gating the start-up blank document
    timerPending,  \* the singleShot(100) timer is started and has not fired
    phase,         \* where main() is: "start" (the application object
                   \* exists), "window" (the window is constructed), "main"
                   \* (the window is registered), "exec", "closed"
    args,          \* command-line arguments main() has still to open
    last,          \* the handler that has just run: its inputs and the
                   \* dialogs it showed; "idle" once back in the event loop
    savedText      \* history: per tab, the text the session was created
                   \* with or last read from or wrote to a file; kept only
                   \* in the specification that records it

vars == <<tabs, cur, btrue, timerPending, phase, args, last, savedText>>

\* one editor: the CodeEditor widget, its document and its tab
Editor(t, fp, ttl) ==
    [text |-> t, anchor |-> 0, position |-> 0,
     filePath |-> fp, modified |-> FALSE, title |-> ttl]

selectionStart(e) == Min(e.anchor, e.position)
selectionEnd(e) == Max(e.anchor, e.position)
hasSelection(e) == e.anchor # e.position
selectedText(e) == SubSeq(e.text, selectionStart(e) + 1, selectionEnd(e))

RemoveAt(s, i) == SubSeq(s, 1, i - 1) \o SubSeq(s, i + 1, Len(s))

\* the record of a handler run: its name and inputs (path, q, r, the tab
\* index idx), whether the file opened (fileOk), the dialogs it showed, the
\* number it reported or replaced (count), its result (ok), the tabs whose
\* text it wrote to a file (saved) and the tabs whose Save Changes question
\* it showed, in order (prompted)
Op(name) ==
    [op |-> name, path |-> NoPath, q |-> <<>>, r |-> <<>>, idx |-> 0,
     fileOk |-> TRUE, dialogs |-> <<>>, count |-> 0, ok |-> TRUE,
     saved |-> {}, prompted |-> <<>>]

Init ==
    /\ tabs = <<>>
    /\ cur = 0
    /\ btrue = TRUE
    /\ timerPending = FALSE
    /\ phase = "start"
    /\ args \in UNION {[1..k -> Paths \cup {NoPath}] : k \in 0..MaxArgs}
    /\ last = Op("idle")
    /\ savedText = <<>>

\* ---------------------------------------------------------- tab widget
\* QTabWidget::addTab followed by setCurrentWidget: the tab becomes current
AddTab(ts, e) == ts \o <<e>>

\* QTabBar::removeTab: the current index after removing tab i
\* (SelectRightTab: the tab that moved into the slot, else the new last tab)
CurAfterRemove(c, i, n) ==
    IF i = c THEN (IF n = 1 THEN 0 ELSE Min(i, n - 1))
    ELSE IF i < c THEN c - 1 ELSE c

\* MainWindow::newDocument
NewDocumentState(ts) == AddTab(ts, Editor(<<>>, NoPath, Untitled))

\* ------------------------------------------------- MainWindow (helpers)
\* the loop of openFileFromEvent: index of the first tab bound to p, or 0
FindByPath(ts, p) ==
    IF \E i \in 1..Len(ts) : ts[i].filePath = p
    THEN CHOOSE i \in 1..Len(ts) :
            /\ ts[i].filePath = p
            /\ \A j \in 1..(i - 1) : ts[j].filePath # p
    ELSE 0

\* faulty variant: a saveToFile that resets the modified flag even when the
\* file does not open
SaveToFileAlwaysClears(ts, i, fileName, wok) ==
    IF fileName = NoPath
    THEN [tabs |-> ts, ok |-> FALSE, dialogs |-> <<>>, saved |-> {}]
    ELSE IF wok
    THEN [tabs |-> [ts EXCEPT ![i].title = FileName(fileName),
                              ![i].filePath = fileName,
                              ![i].modified = FALSE],
          ok |-> TRUE, dialogs |-> <<>>, saved |-> {i}]
    ELSE [tabs |-> [ts EXCEPT ![i].modified = FALSE], ok |-> FALSE,
          dialogs |-> <<"ErrorSave">>, saved |-> {}]

\* faulty variant: a saveToFile that rebinds the editor but leaves the tab
\* text as it was
SaveToFileKeepsTitle(ts, i, fileName, wok) ==
    IF fileName = NoPath
    THEN [tabs |-> ts, ok |-> FALSE, dialogs |-> <<>>, saved |-> {}]
    ELSE IF wok
    THEN [tabs |-> [ts EXCEPT ![i].filePath = fileName,
                              ![i].modified = FALSE],
          ok |-> TRUE, dialogs |-> <<>>, saved |-> {i}]
    ELSE [tabs |-> ts, ok |-> FALSE, dialogs |-> <<"ErrorSave">>,
          saved |-> {}]

\* MainWindow::saveToFile(editor, fileName); wok: the file opens for writing
SaveToFile(ts, i, fileName, wok) ==
    IF fileName = NoPath
    THEN [tabs |-> ts, ok |-> FALSE, dialogs |-> <<>>, saved |-> {}]
    ELSE IF wok
    THEN [tabs |-> [ts EXCEPT ![i].title = FileName(fileName),
                              ![i].filePath = fileName,
                              ![i].modified = FALSE],
          ok |-> TRUE, dialogs |-> <<>>, saved |-> {i}]
    ELSE [tabs |-> ts, ok |-> FALSE, dialogs |-> <<"ErrorSave">>,
          saved |-> {}]

\* faulty variant: promptSave without the isModified test
PromptSaveAlways(ts, i, reply, newFileName, wok) ==
    IF reply = "Yes"
    THEN IF ts[i].filePath = NoPath
         THEN IF newFileName = NoPath
              THEN [tabs |-> ts, ok |-> FALSE,
                    dialogs |-> <<"SaveChanges", "SaveFileAs">>,
                    saved |-> {}]
              ELSE LET s == SaveToFile(ts, i, newFileName, wok)
                   IN  [s EXCEPT !.dialogs =
                                    <<"SaveChanges", "SaveFileAs">> \o @]
         ELSE LET s == SaveToFile(ts, i, ts[i].filePath, wok)
              IN  [s EXCEPT !.dialogs = <<"SaveChanges">> \o @]
    ELSE IF reply = "No"
    THEN [tabs |-> ts, ok |-> TRUE, dialogs |-> <<"SaveChanges">>,
          saved |-> {}]
    ELSE [tabs |-> ts, ok |-> FALSE, dialogs |-> <<"SaveChanges">>,
          saved |-> {}]

\* MainWindow::promptSave(editor) for the editor of tab i; reply is the
\* button of the Save Changes question, newFileName the answer of the
\* Save File As dialog (empty when dismissed)
PromptSave(ts, i, reply, newFileName, wok) ==
    IF ~ts[i].modified
    THEN [tabs |-> ts, ok |-> TRUE, dialogs |-> <<>>, saved |-> {}]
    ELSE IF reply = "Yes"
    THEN IF ts[i].filePath = NoPath
         THEN IF newFileName = NoPath
              THEN [tabs |-> ts, ok |-> FALSE,
                    dialogs |-> <<"SaveChanges", "SaveFileAs">>,
                    saved |-> {}]
              ELSE LET s == SaveToFile(ts, i, newFileName, wok)
                   IN  [s EXCEPT !.dialogs =
                                    <<"SaveChanges", "SaveFileAs">> \o @]
         ELSE LET s == SaveToFile(ts, i, ts[i].filePath, wok)
              IN  [s EXCEPT !.dialogs = <<"SaveChanges">> \o @]
    ELSE IF reply = "No"
    THEN [tabs |-> ts, ok |-> TRUE, dialogs |-> <<"SaveChanges">>,
          saved |-> {}]
    ELSE [tabs |-> ts, ok |-> FALSE, dialogs |-> <<"SaveChanges">>,
          saved |-> {}]

Replies == {"Yes", "No", "Cancel"}

\* every way promptSave can go for tab i, over the user's answers and the
\* outcome of the write
PromptSaveOutcomes(ts, i) ==
    {PromptSave(ts, i, reply, fn, wok) :
        reply \in Replies, fn \in Paths \cup {NoPath}, wok \in BOOLEAN}

\* QPlainTextEdit::find(q): forward from the end of the selection, with the
\* default flags (case-insensitive); a hit becomes the selection
Find(e, q) ==
    LET i == IndexOf(e.text, q, selectionEnd(e), FALSE)
    IN  IF i = -1 THEN [found |-> FALSE, ed |-> e]
        ELSE [found |-> TRUE,
              ed |-> [e EXCEPT !.anchor = i, !.position = i + Len(q)]]

\* QTextCursor::insertText(r) on a copy of the editor's cursor: the
\* selection is replaced, the document becomes modified, and the editor's
\* own cursor ends up, without selection, after the inserted text
InsertText(e, r) ==
    [e EXCEPT !.text = SubSeq(e.text, 1, selectionStart(e)) \o r
                          \o SubSeq(e.text, selectionEnd(e) + 1, Len(e.text)),
              !.anchor = selectionStart(e) + Len(r),
              !.position = selectionStart(e) + Len(r),
              !.modified = TRUE]

\* QPlainTextEdit::setPlainText(t): the content is replaced, the cursor goes
\* to the start, and the widget's text control ends by resetting the
\* document's modified flag (QWidgetTextControlPrivate::setContent)
SetPlainText(e, t) ==
    [e EXCEPT !.text = t, !.anchor = 0, !.position = 0, !.modified = FALSE]

\* --------------------------------------------------------------- actions
\* no handler is running: events are handled one at a time
Idle == last.op = "idle"
Running == phase = "exec" /\ Idle
Frame == UNCHANGED <<timerPending, phase, args, savedText>>

\* the tab kept free for the start-up blank document while it is still due,
\* so that the bound on the number of tabs never holds back the timer
Reserved == IF timerPending /\ btrue THEN 1 ELSE 0

\* MainWindow::newDocument (File > New)
NewDocument ==
    /\ Running
    /\ Len(tabs) < MaxTabs - Reserved
    /\ tabs' = NewDocumentState(tabs)
    /\ cur' = Len(tabs) + 1
    /\ last' = [Op("newDocument") EXCEPT !.idx = Len(tabs) + 1]
    /\ UNCHANGED btrue
    /\ Frame

\* faulty variant: a doLater that adds the blank document whatever the flag
DoLaterIgnoresFlag ==
    /\ Running
    /\ timerPending
    /\ timerPending' = FALSE
    /\ Len(tabs) < MaxTabs
    /\ tabs' = NewDocumentState(tabs)
    /\ cur' = Len(tabs) + 1
    /\ last' = [Op("doLater") EXCEPT !.idx = Len(tabs) + 1]
    /\ UNCHANGED <<btrue, phase, args, savedText>>

\* MainWindow::doLater, the slot of the single-shot timer
DoLater ==
    /\ Running
    /\ timerPending
    /\ timerPending' = FALSE
    /\ IF btrue
       THEN /\ Len(tabs) < MaxTabs
            /\ tabs' = NewDocumentState(tabs)
            /\ cur' = Len(tabs) + 1
            /\ last' = [Op("doLater") EXCEPT !.idx = Len(tabs) + 1]
       ELSE /\ UNCHANGED <<tabs, cur>>
            /\ last' = Op("doLater")
    /\ UNCHANGED <<btrue, phase, args, savedText>>

\* MainWindow::openFileFromEvent(fileName), called by handler `name`;
\* fok: the file opens for reading, content: what readAll() returns
\* faulty variant: a failed open also clears the start-up flag
OpenFileFromEventClearsFlag(name, fileName, fok, content) ==
    LET rec == [Op(name) EXCEPT !.path = fileName]
        i == FindByPath(tabs, fileName)
    IN  IF fok /\ fileName # NoPath
        THEN IF i # 0
             THEN /\ cur' = i
                  /\ last' = [rec EXCEPT !.idx = i]
                  /\ UNCHANGED <<tabs, btrue>>
             ELSE /\ Len(tabs) < MaxTabs
                  /\ tabs' = AddTab(tabs,
                        SetPlainText(Editor(<<>>, fileName,
                                            FileName(fileName)), content))
                  /\ cur' = Len(tabs) + 1
                  /\ btrue' = FALSE
                  /\ last' = [rec EXCEPT !.idx = Len(tabs) + 1]
        ELSE /\ last' = [rec EXCEPT !.fileOk = FALSE, !.ok = FALSE,
                                    !.dialogs = <<"ErrorOpen">>]
             /\ btrue' = FALSE
             /\ UNCHANGED <<tabs, cur>>
OpenFileFromEvent(name, fileName, fok, content) ==
    LET rec == [Op(name) EXCEPT !.path = fileName]
        i == FindByPath(tabs, fileName)
    IN  IF fok /\ fileName # NoPath
        THEN IF i # 0
             THEN /\ cur' = i
                  /\ last' = [rec EXCEPT !.idx = i]
                  /\ UNCHANGED <<tabs, btrue>>
             ELSE /\ Len(tabs) < MaxTabs
                  /\ tabs' = AddTab(tabs,
                        SetPlainText(Editor(<<>>, fileName,
                                            FileName(fileName)), content))
                  /\ cur' = Len(tabs) + 1
                  /\ btrue' = FALSE
                  /\ last' = [rec EXCEPT !.idx = Len(tabs) + 1]
        ELSE /\ last' = [rec EXCEPT !.fileOk = FALSE, !.ok = FALSE,
                                    !.dialogs = <<"ErrorOpen">>]
             /\ UNCHANGED <<tabs, cur, btrue>>

\* what opening and reading a file can give: failure, or some content
ReadResults ==
    {[fok |-> FALSE, content |-> <<>>]}
       \cup {[fok |-> TRUE, content |-> c] : c \in DocStrs(MaxDoc)}

\* TextEditorApp::mainWindow is set
mainWindow == phase \notin {"start", "window"}

\* main(): MainWindow mainWindow; the constructor starts the timer
MainWindowCtor ==
    /\ phase = "start"
    /\ Idle
    /\ phase' = "window"
    /\ timerPending' = TRUE
    /\ UNCHANGED <<tabs, cur, btrue, args, last, savedText>>

\* main(): app.setMainWindow(&mainWindow)
SetMainWindow ==
    /\ phase = "window"
    /\ Idle
    /\ phase' = "main"
    /\ UNCHANGED <<tabs, cur, btrue, timerPending, args, last,
                   savedText>>

\* main(): the loop over the command-line arguments, one iteration
MainOpenArg ==
    /\ phase = "main"
    /\ Idle
    /\ args # <<>>
    /\ \E rd \in ReadResults :
          OpenFileFromEvent("openFileFromEvent", Head(args), rd.fok,
                            rd.content)
    /\ args' = Tail(args)
    /\ UNCHANGED <<timerPending, phase, savedText>>

\* main(): mainWindow.show(); app.exec()
MainExec ==
    /\ phase = "main"
    /\ Idle
    /\ args = <<>>
    /\ phase' = "exec"
    /\ last' = Op("exec")
    /\ UNCHANGED <<tabs, cur, btrue, timerPending, args, savedText>>

\* MainWindow::openFile (File > Open); the dialog returns a path or nothing
OpenFile ==
    /\ Running
    /\ \E fileName \in Paths \cup {NoPath} :
          IF fileName # NoPath
          THEN \E rd \in ReadResults :
                  OpenFileFromEvent("openFileFromEvent", fileName, rd.fok,
                                    rd.content)
          ELSE /\ last' = Op("openFile")
               /\ UNCHANGED <<tabs, cur, btrue>>
    /\ Frame

\* TextEditorApp::event on QEvent::FileOpen: the host's notification is
\* delivered to the application object, which exists from the start of
\* main(); without a path or a registered window the event is passed on to
\* QApplication::event, which does nothing with it
FileOpenEvent ==
    /\ Idle
    /\ phase \in {"start", "window", "main", "exec"}
    /\ \E filePath \in Paths \cup {NoPath} :
          IF filePath # NoPath /\ mainWindow
          THEN \E rd \in ReadResults :
                  OpenFileFromEvent("openFileFromEvent", filePath, rd.fok,
                                    rd.content)
          ELSE /\ last' = [Op("fileOpenEvent") EXCEPT
                              !.path = filePath, !.ok = (filePath = NoPath)]
               /\ UNCHANGED <<tabs, cur, btrue>>
    /\ Frame

\* ------------------------------------------------ the text widget (user)
\* a key press: the character replaces the selection
TypeChar(c, cap) ==
    /\ Running
    /\ cur # 0
    /\ Len(InsertText(tabs[cur], <<c>>).text) <= cap
    /\ tabs' = [tabs EXCEPT ![cur] = InsertText(@, <<c>>)]
    /\ last' = [Op("typeChar") EXCEPT !.idx = cur]
    /\ UNCHANGED <<cur, btrue>>
    /\ Frame

\* Backspace: removes the selection, else the character before the cursor
Backspace ==
    /\ Running
    /\ cur # 0
    /\ LET e == tabs[cur]
       IN  /\ hasSelection(e) \/ e.position > 0
           /\ tabs' = [tabs EXCEPT ![cur] =
                 IF hasSelection(e) THEN InsertText(e, <<>>)
                 ELSE InsertText([e EXCEPT !.anchor = e.position - 1], <<>>)]
    /\ last' = [Op("backspace") EXCEPT !.idx = cur]
    /\ UNCHANGED <<cur, btrue>>
    /\ Frame

\* the user clicks another tab
SelectTab ==
    /\ Running
    /\ \E i \in 1..Len(tabs) :
          /\ i # cur
          /\ cur' = i
          /\ last' = [Op("selectTab") EXCEPT !.idx = i]
    /\ UNCHANGED <<tabs, btrue>>
    /\ Frame

\* ----------------------------------------------------------- find/replace
\* MainWindow::findText(text)
FindText(q) ==
    /\ Running
    /\ IF q = <<>> \/ cur = 0
       THEN /\ last' = [Op("findText") EXCEPT !.q = q]
            /\ UNCHANGED tabs
       ELSE LET f == Find(tabs[cur], q)
            IN  /\ tabs' = [tabs EXCEPT ![cur] = f.ed]
                /\ last' = [Op("findText") EXCEPT
                              !.q = q, !.idx = cur, !.ok = f.found,
                              !.dialogs = IF f.found THEN <<>>
                                          ELSE <<"NotFound">>]
    /\ UNCHANGED <<cur, btrue>>
    /\ Frame

\* faulty variant: replaceText that replaces any selection, equal to the query or not
ReplaceTextAnySelection(q, r, cap) ==
    /\ Running
    /\ IF q = <<>> \/ cur = 0
       THEN /\ last' = [Op("replaceText") EXCEPT !.q = q, !.r = r]
            /\ UNCHANGED tabs
       ELSE LET e == tabs[cur]
                match == hasSelection(e)
                e1 == IF match THEN InsertText(e, r) ELSE e
                f == Find(e1, q)
            IN  /\ Len(e1.text) <= cap
                /\ tabs' = [tabs EXCEPT ![cur] = f.ed]
                /\ last' = [Op("replaceText") EXCEPT
                              !.q = q, !.r = r, !.idx = cur, !.ok = f.found,
                              !.count = IF match THEN 1 ELSE 0,
                              !.dialogs = IF f.found THEN <<>>
                                          ELSE <<"NotFound">>]
    /\ UNCHANGED <<cur, btrue>>
    /\ Frame

\* MainWindow::replaceText(text, replacement); cap bounds the text length
ReplaceText(q, r, cap) ==
    /\ Running
    /\ IF q = <<>> \/ cur = 0
       THEN /\ last' = [Op("replaceText") EXCEPT !.q = q, !.r = r]
            /\ UNCHANGED tabs
       ELSE LET e == tabs[cur]
                match == hasSelection(e) /\ selectedText(e) = q
                e1 == IF match THEN InsertText(e, r) ELSE e
                f == Find(e1, q)
            IN  /\ Len(e1.text) <= cap
                /\ tabs' = [tabs EXCEPT ![cur] = f.ed]
                /\ last' = [Op("replaceText") EXCEPT
                              !.q = q, !.r = r, !.idx = cur, !.ok = f.found,
                              !.count = IF match THEN 1 ELSE 0,
                              !.dialogs = IF f.found THEN <<>>
                                          ELSE <<"NotFound">>]
    /\ UNCHANGED <<cur, btrue>>
    /\ Frame

\* MainWindow::replaceAllText(text, replacement)
ReplaceAllText(q, r, cap) ==
    /\ Running
    /\ IF q = <<>> \/ cur = 0
       THEN /\ last' = [Op("replaceAllText") EXCEPT !.q = q, !.r = r]
            /\ UNCHANGED tabs
       ELSE LET content == tabs[cur].text
                occurrences == count(content, q)
            IN  IF occurrences = 0
                THEN /\ last' = [Op("replaceAllText") EXCEPT
                                   !.q = q, !.r = r, !.idx = cur,
                                   !.dialogs = <<"NoOccurrences">>]
                     /\ UNCHANGED tabs
                ELSE /\ Len(replace(content, q, r)) <= cap
                     /\ tabs' = [tabs EXCEPT ![cur] =
                           SetPlainText(@, replace(content, q, r))]
                     /\ last' = [Op("replaceAllText") EXCEPT
                                   !.q = q, !.r = r, !.idx = cur,
                                   !.count = occurrences,
                                   !.dialogs = <<"Replaced">>]
    /\ UNCHANGED <<cur, btrue>>
    /\ Frame

\* ------------------------------------------------------------------ save
\* the record of a save attempt on tab i to fileName
SaveRec(name, i, fileName, wok, s, pre) ==
    [Op(name) EXCEPT !.idx = i, !.path = fileName, !.fileOk = wok,
                     !.ok = s.ok, !.dialogs = pre \o s.dialogs,
                     !.saved = s.saved]

\* MainWindow::saveFileAs, as handler `name`; fileName is the answer of the
\* Save File As dialog, empty when the user dismisses it
SaveFileAsBody(name, fileName, wok) ==
    IF cur = 0
    THEN /\ last' = [Op(name) EXCEPT !.ok = FALSE]
         /\ UNCHANGED tabs
    ELSE IF fileName = NoPath
    THEN /\ last' = [Op(name) EXCEPT !.idx = cur, !.ok = FALSE,
                                     !.dialogs = <<"SaveFileAs">>]
         /\ UNCHANGED tabs
    ELSE LET s == SaveToFile(tabs, cur, fileName, wok)
         IN  /\ tabs' = s.tabs
             /\ last' = SaveRec(name, cur, fileName, wok, s, <<"SaveFileAs">>)

\* File > Save As
SaveFileAs ==
    /\ Running
    /\ \E fileName \in Paths \cup {NoPath}, wok \in BOOLEAN :
          SaveFileAsBody("saveFileAs", fileName, wok)
    /\ UNCHANGED <<cur, btrue>>
    /\ Frame

\* MainWindow::saveFile (File > Save)
SaveFile ==
    /\ Running
    /\ IF cur # 0 /\ tabs[cur].filePath # NoPath
       THEN \E wok \in BOOLEAN :
               LET s == SaveToFile(tabs, cur, tabs[cur].filePath, wok)
               IN  /\ tabs' = s.tabs
                   /\ last' = SaveRec("saveFile", cur, tabs[cur].filePath,
                                      wok, s, <<>>)
       ELSE \E fileName \in Paths \cup {NoPath}, wok \in BOOLEAN :
               SaveFileAsBody("saveFile", fileName, wok)
    /\ UNCHANGED <<cur, btrue>>
    /\ Frame

\* ----------------------------------------------------------------- close
\* MainWindow::closeTab(index), from the close button of tab index
CloseTab(index) ==
    /\ Running
    /\ index \in 1..Len(tabs)
    /\ \E o \in PromptSaveOutcomes(tabs, index) :
          /\ last' = [Op("closeTab") EXCEPT !.idx = index, !.ok = o.ok,
                                            !.dialogs = o.dialogs,
                                            !.saved = o.saved,
                                            !.prompted =
                                               IF o.dialogs # <<>>
                                               THEN <<index>> ELSE <<>>]
          /\ IF o.ok
             THEN /\ tabs' = RemoveAt(o.tabs, index)
                  /\ cur' = CurAfterRemove(cur, index, Len(tabs))
             ELSE /\ tabs' = o.tabs
                  /\ UNCHANGED cur
    /\ UNCHANGED btrue
    /\ Frame

\* faulty variant: a closeEvent loop that, after a Cancel or a failed save,
\* rejects the close only once every tab has been visited
RECURSIVE CloseLoopVisitsAll(_, _, _, _, _, _)
CloseLoopVisitsAll(ts, i, c, dlg, sv, prm) ==
    IF i > Len(ts)
    THEN {[tabs |-> ts, cur |-> c, accepted |-> TRUE, dialogs |-> dlg,
           saved |-> sv, prompted |-> prm]}
    ELSE UNION {
           IF o.ok
           THEN CloseLoopVisitsAll(o.tabs, i + 1, i, dlg \o o.dialogs,
                          sv \cup o.saved,
                          IF o.dialogs # <<>> THEN Append(prm, i) ELSE prm)
           ELSE {[r EXCEPT !.accepted = FALSE] :
                   r \in CloseLoopVisitsAll(o.tabs, i + 1, i,
                                            dlg \o o.dialogs, sv,
                                            Append(prm, i))}
           : o \in PromptSaveOutcomes(ts, i)}

\* the loop of MainWindow::closeEvent from tab i on, c being the current
\* index, dlg the dialogs shown, sv the tabs saved and prm the tabs whose
\* Save Changes question was shown so far: every way it can end
RECURSIVE CloseLoop(_, _, _, _, _, _)
CloseLoop(ts, i, c, dlg, sv, prm) ==
    IF i > Len(ts)
    THEN {[tabs |-> ts, cur |-> c, accepted |-> TRUE, dialogs |-> dlg,
           saved |-> sv, prompted |-> prm]}
    ELSE UNION {
           IF o.ok
           THEN CloseLoop(o.tabs, i + 1, i, dlg \o o.dialogs,
                          sv \cup o.saved,
                          IF o.dialogs # <<>> THEN Append(prm, i) ELSE prm)
           ELSE {[tabs |-> o.tabs, cur |-> i, accepted |-> FALSE,
                  dialogs |-> dlg \o o.dialogs, saved |-> sv,
                  prompted |-> Append(prm, i)]}
           : o \in PromptSaveOutcomes(ts, i)}

\* MainWindow::closeEvent: the user closes the window; an accepted close
\* ends the application
CloseEvent ==
    /\ Running
    /\ \E o \in CloseLoop(tabs, 1, cur, <<>>, {}, <<>>) :
          /\ tabs' = o.tabs
          /\ cur' = o.cur
          /\ phase' = IF o.accepted THEN "closed" ELSE phase
          /\ last' = [Op("closeEvent") EXCEPT !.ok = o.accepted,
                                              !.idx = o.cur,
                                              !.dialogs = o.dialogs,
                                              !.saved = o.saved,
                                              !.prompted = o.prompted]
    /\ UNCHANGED <<btrue, timerPending, args, savedText>>

\* the handler has returned: control is back in main() or the event loop
Return ==
    /\ ~Idle
    /\ last' = Op("idle")
    /\ UNCHANGED <<tabs, cur, btrue, timerPending, phase, args, savedText>>

\* the history h brought up to date with the handler run l that left the
\* tabs ts: a created session starts with its text (blank, or the content
\* read from the file), a removed session leaves, and a session written to
\* a file has its text as saved text
Recorded(h, ts, l) ==
    IF Len(ts) = Len(h) + 1 THEN Append(h, ts[Len(ts)].text)
    ELSE IF Len(ts) = Len(h) - 1 THEN RemoveAt(h, l.idx)
    ELSE [j \in 1..Len(h) |-> IF j \in l.saved THEN ts[j].text ELSE h[j]]

\* the handler has returned, and what it read or wrote is recorded
ReturnRecording ==
    /\ ~Idle
    /\ last' = Op("idle")
    /\ savedText' = Recorded(savedText, tabs, last)
    /\ UNCHANGED <<tabs, cur, btrue, timerPending, phase, args>>

\* --------------------------------------------------------- specifications
\* what the user enters in the find/replace dialog in the full editor
DlgFind == {<<"a">>}
DlgReplace == {<<>>}

Handlers ==
    \/ MainWindowCtor
    \/ SetMainWindow
    \/ MainOpenArg
    \/ MainExec
    \/ DoLater
    \/ NewDocument
    \/ OpenFile
    \/ FileOpenEvent
    \/ \E c \in DocChars : TypeChar(c, MaxDoc)
    \/ Backspace
    \/ SelectTab
    \/ \E q \in DlgFind : FindText(q)
    \/ \E q \in DlgFind, r \in DlgReplace : ReplaceText(q, r, MaxDoc)
    \/ \E q \in DlgFind, r \in DlgReplace : ReplaceAllText(q, r, MaxDoc)
    \/ SaveFile
    \/ SaveFileAs
    \/ \E index \in 1..MaxTabs : CloseTab(index)
    \/ CloseEvent

Next ==
    \/ Handlers
    \/ Return

Spec == Init /\ [][Next]_vars

\* the editor with the history of what each session read or wrote
NextRecording ==
    \/ Handlers
    \/ ReturnRecording

SpecRecording == Init /\ [][NextRecording]_vars

\* Start-up and the session collection, without editing. main() is
\* sequential code and runs on to exec(); the event loop dispatches a due
\* timer between any two other events, so neither can be held back for ever
\* by the user's and the host's events (strong fairness); a handler that
\* has started returns (weak fairness)
NextStart ==
    \/ MainWindowCtor
    \/ SetMainWindow
    \/ MainOpenArg
    \/ MainExec
    \/ DoLater
    \/ NewDocument
    \/ OpenFile
    \/ FileOpenEvent
    \/ SelectTab
    \/ \E index \in 1..MaxTabs : CloseTab(index)
    \/ CloseEvent
    \/ Return

SpecStart ==
    /\ Init
    /\ [][NextStart]_vars
    /\ SF_vars(MainWindowCtor)
    /\ SF_vars(SetMainWindow)
    /\ SF_vars(MainOpenArg)
    /\ SF_vars(MainExec)
    /\ SF_vars(DoLater)
    /\ WF_vars(Return)

\* The find/replace engine on one document: any text, cursor and selection,
\* modified or not, bound or not; or no document at all
InitText ==
    /\ \/ tabs = <<>> /\ cur = 0
       \/ /\ \E t \in Strs(MaxLen), fp \in {<<"a.txt">>}, m \in BOOLEAN :
                \E a \in 0..Len(t), p \in 0..Len(t) :
                   tabs = <<[text |-> t, anchor |-> a, position |-> p,
                             filePath |-> fp, modified |-> m,
                             title |-> IF fp = NoPath THEN Untitled
                                       ELSE FileName(fp)]>>
          /\ cur = 1
    /\ btrue = FALSE
    /\ timerPending = FALSE
    /\ phase = "exec"
    /\ args = <<>>
    /\ last = Op("idle")
    /\ savedText = <<>>

\* the queries the find field can hold when a click is dispatched: clicks
\* are dispatched from the event loop only, so none while a handler's result
\* is still being observed
TextFind == IF Idle THEN Strs(MaxQ) ELSE {}

\* one click in the find/replace dialog, with any query and replacement
NextText ==
    \/ \E q \in TextFind : FindText(q)
    \/ \E q \in TextFind, r \in Strs(MaxR) : ReplaceText(q, r, MaxLen)
    \/ \E q \in TextFind, r \in Strs(MaxR) : ReplaceAllText(q, r, MaxLen)

SpecText == InitText /\ [][NextText]_vars

\* ================================================================ claims
\* the tab a session in tab i before a step occupies after it, 0 if removed
NewIndex(i) ==
    IF last'.op = "closeTab" /\ Len(tabs') < Len(tabs)
    THEN (IF i < last'.idx THEN i ELSE IF i = last'.idx THEN 0 ELSE i - 1)
    ELSE i

\* s contains q as a literal, case-sensitive substring
Contains(s, q) ==
    \E i \in 0..(Len(s) - Len(q)) : SubSeq(s, i + 1, i + Len(q)) = q

\* C1: isModified is false right after a load that creates the session and
\* right after a successful save of the session, true after an insertion or
\* deletion, and once true it stays true in every step that does not save
\* that session.
C1_ModifiedUntilSaved ==
    [][ /\ (last'.op = "openFileFromEvent" /\ Len(tabs') > Len(tabs))
              => ~tabs'[Len(tabs')].modified
        /\ \A i \in last'.saved :
              NewIndex(i) # 0 => ~tabs'[NewIndex(i)].modified
        /\ last'.op \in {"typeChar", "backspace"} => tabs'[cur'].modified
        /\ \A i \in 1..Len(tabs) :
              (tabs[i].modified /\ i \notin last'.saved /\ NewIndex(i) # 0)
                 => tabs'[NewIndex(i)].modified ]_vars

\* C1 without replaceAllText: the same statement for every other handler
C1_ExceptReplaceAll ==
    [][ last'.op # "replaceAllText" =>
        /\ (last'.op = "openFileFromEvent" /\ Len(tabs') > Len(tabs))
              => ~tabs'[Len(tabs')].modified
        /\ \A i \in last'.saved :
              NewIndex(i) # 0 => ~tabs'[NewIndex(i)].modified
        /\ last'.op \in {"typeChar", "backspace"} => tabs'[cur'].modified
        /\ \A i \in 1..Len(tabs) :
              (tabs[i].modified /\ i \notin last'.saved /\ NewIndex(i) # 0)
                 => tabs'[NewIndex(i)].modified ]_vars

\* C2: no two open sessions have the same non-empty boundPath.
C2_UniqueBoundPath ==
    \A i \in 1..Len(tabs), j \in 1..Len(tabs) :
       (i # j /\ tabs[i].filePath # NoPath)
          => tabs[i].filePath # tabs[j].filePath

\* C3: openPath(P) with a session bound to P already open changes no
\* session, adds none, and leaves a session bound to P active, whatever the
\* file on disk is like.
C3_ReopenActivates ==
    [][ (/\ last'.op = "openFileFromEvent"
         /\ last'.path # NoPath
         /\ \E i \in 1..Len(tabs) : tabs[i].filePath = last'.path)
        => /\ tabs' = tabs
           /\ cur' # 0
           /\ tabs'[cur'].filePath = last'.path ]_vars

\* C3 for a readable file: re-opening then activates the first session
\* bound to P and changes nothing else
C3_ReopenReadable ==
    [][ (/\ last'.op = "openFileFromEvent"
         /\ last'.path # NoPath
         /\ last'.fileOk
         /\ \E i \in 1..Len(tabs) : tabs[i].filePath = last'.path)
        => /\ tabs' = tabs
           /\ cur' # 0
           /\ tabs'[cur'].filePath = last'.path
           /\ \A j \in 1..(cur' - 1) : tabs[j].filePath # last'.path
           /\ btrue' = btrue ]_vars

\* C4: an openPath whose file cannot be read shows the error and leaves the
\* sessions, their order, the active index and the start-up flag unchanged.
C4_OpenFailureChangesNothing ==
    [][ (last'.op = "openFileFromEvent" /\ ~last'.fileOk)
        => /\ last'.dialogs = <<"ErrorOpen">>
           /\ tabs' = tabs
           /\ cur' = cur
           /\ btrue' = btrue
           /\ timerPending' = timerPending ]_vars

\* a failed open with two sessions open, the first modified, and the
\* start-up flag still set
C4_Witness ==
    /\ last.op = "openFileFromEvent"
    /\ ~last.fileOk
    /\ last.dialogs = <<"ErrorOpen">>
    /\ Len(tabs) = 2
    /\ tabs[1].modified
    /\ cur = 2
    /\ btrue

\* the number of non-overlapping occurrences of q in s, scanning left to
\* right from offset from
RECURSIVE Occurrences(_, _, _)
Occurrences(s, q, from) ==
    IF from + Len(q) > Len(s) THEN 0
    ELSE IF SubSeq(s, from + 1, from + Len(q)) = q
    THEN 1 + Occurrences(s, q, from + Len(q))
    ELSE Occurrences(s, q, from + 1)

Replaced == last.op = "replaceAllText" /\ last.dialogs = <<"Replaced">>
SharesChar(r, q) == \E i \in 1..Len(r), j \in 1..Len(q) : r[i] = q[j]

\* C5 as stated: after a replaceAll that found the query, with a replacement
\* that does not contain the query, the text contains no occurrence of it.
C5_NoOccurrenceLeft ==
    (Replaced /\ ~Contains(last.r, last.q))
       => ~Contains(tabs[cur].text, last.q)

\* C5 amended: this holds when the replacement is non-empty and has no
\* character in common with the query.
C5_NoOccurrenceLeftDisjoint ==
    (Replaced /\ last.r # <<>> /\ ~SharesChar(last.r, last.q))
       => ~Contains(tabs[cur].text, last.q)

\* two or more occurrences replaced by a character foreign to the query
C5_Witness ==
    /\ Replaced
    /\ last.r # <<>>
    /\ ~SharesChar(last.r, last.q)
    /\ Len(last.q) = 2
    /\ Len(tabs[cur].text) = 2

\* C6: the count replaceAll reports is the number of non-overlapping,
\* left-to-right occurrences of the query in the text before the call, the
\* substitutions it performs.
C6_CountIsSubstitutions ==
    [][ (last'.op = "replaceAllText" /\ last'.dialogs = <<"Replaced">>)
        => last'.count = Occurrences(tabs[cur].text, last'.q, 0) ]_vars

\* C7: after a replaceAll that replaced at least one occurrence the active
\* session is modified.
C7_ModifiedAfterReplaceAll ==
    Replaced => tabs[cur].modified

\* C8: a find whose query does not occur (case-sensitively) from the cursor
\* on, and a replaceAll whose query occurs nowhere, report that and change
\* nothing; with an empty query or no session they change and report nothing.
C8_NotFoundChangesNothing ==
    [][ /\ (/\ last'.op = "findText"
            /\ last'.q # <<>> /\ cur # 0
            /\ ~Contains(SubSeq(tabs[cur].text, tabs[cur].position + 1,
                                Len(tabs[cur].text)), last'.q))
           => (last'.dialogs = <<"NotFound">> /\ tabs' = tabs /\ cur' = cur)
        /\ (/\ last'.op = "replaceAllText"
            /\ last'.q # <<>> /\ cur # 0
            /\ ~Contains(tabs[cur].text, last'.q))
           => (last'.dialogs = <<"NoOccurrences">> /\ tabs' = tabs
               /\ cur' = cur)
        /\ (/\ last'.op \in {"findText", "replaceAllText"}
            /\ (last'.q = <<>> \/ cur = 0))
           => (last'.dialogs = <<>> /\ tabs' = tabs /\ cur' = cur) ]_vars

\* C8 for replaceAll and for the silent cases alone
C8_ExceptFind ==
    [][ /\ (/\ last'.op = "replaceAllText"
            /\ last'.q # <<>> /\ cur # 0
            /\ ~Contains(tabs[cur].text, last'.q))
           => (last'.dialogs = <<"NoOccurrences">> /\ tabs' = tabs
               /\ cur' = cur)
        /\ (/\ last'.op \in {"findText", "replaceAllText"}
            /\ (last'.q = <<>> \/ cur = 0))
           => (last'.dialogs = <<>> /\ tabs' = tabs /\ cur' = cur) ]_vars

\* C9: replaceText with a non-empty query and an active session replaces the
\* selection by the replacement iff the selected text equals the query,
\* changes no other text, and then does one find of the query from where
\* the cursor then is.
C9_ReplaceThenFind ==
    [][ (last'.op = "replaceText" /\ last'.q # <<>> /\ cur # 0)
        => LET e == tabs[cur]
               lo == IF e.anchor < e.position THEN e.anchor ELSE e.position
               hi == IF e.anchor < e.position THEN e.position ELSE e.anchor
               same == lo # hi /\ SubSeq(e.text, lo + 1, hi) = last'.q
               mid == IF same
                      THEN [e EXCEPT
                              !.text = SubSeq(e.text, 1, lo) \o last'.r
                                          \o SubSeq(e.text, hi + 1, Len(e.text)),
                              !.anchor = lo + Len(last'.r),
                              !.position = lo + Len(last'.r),
                              !.modified = TRUE]
                      ELSE e
           IN  /\ tabs'[cur].text = mid.text
               /\ tabs'[cur] = Find(mid, last'.q).ed
               /\ last'.ok = Find(mid, last'.q).found
               /\ (same <=> last'.count = 1)
               /\ \A i \in 1..Len(tabs) : i # cur => tabs'[i] = tabs[i]
               /\ cur' = cur ]_vars

\* a replacement was made and the next occurrence was found and selected
C9_Witness ==
    /\ last.op = "replaceText"
    /\ last.count = 1
    /\ last.ok
    /\ last.r # <<>>
    /\ hasSelection(tabs[cur])
    /\ tabs[cur].modified

\* C10: closing a tab whose session is not modified shows no dialog and
\* removes exactly that session; the other sessions are unchanged.
C10_CloseUnmodified ==
    [][ (last'.op = "closeTab" /\ ~tabs[last'.idx].modified)
        => /\ last'.dialogs = <<>>
           /\ Len(tabs') = Len(tabs) - 1
           /\ \A j \in 1..Len(tabs) :
                 /\ j < last'.idx => tabs'[j] = tabs[j]
                 /\ j > last'.idx => tabs'[j - 1] = tabs[j] ]_vars

\* an unmodified session was closed without a dialog while a modified one
\* stays open
C10_Witness ==
    /\ last.op = "closeTab"
    /\ last.dialogs = <<>>
    /\ last.ok
    /\ last.idx = 1
    /\ Len(tabs) = 1
    /\ tabs[1].modified

\* the step is closeTab on a modified session with Cancel answered to the
\* Save Changes question
ClosePromptCancelled ==
    /\ last'.op = "closeTab"
    /\ tabs[last'.idx].modified
    /\ last'.dialogs = <<"SaveChanges">>
    /\ ~last'.ok

\* C11: when closeTab(index) runs on a modified session, active or not, and
\* the user answers Cancel, the session is still in the collection and is
\* the active session afterwards.
C11_CancelKeepsActive ==
    [][ ClosePromptCancelled
        => /\ tabs' = tabs
           /\ cur' = last'.idx ]_vars

\* C11 without the activation: Cancel leaves the collection and the active
\* index exactly as they were
C11_CancelKeepsOpen ==
    [][ ClosePromptCancelled => (tabs' = tabs /\ cur' = cur) ]_vars

\* the tab a save leaves behind: same text and cursor, not modified
SavedFrom(e1, e) ==
    /\ ~e1.modified
    /\ e1.filePath # NoPath
    /\ e1 = [e EXCEPT !.modified = FALSE, !.filePath = e1.filePath,
                      !.title = e1.title]

SaveNotCompleted ==
    /\ last'.op \in {"saveFile", "saveFileAs", "closeTab", "closeEvent"}
    /\ ~last'.ok
    /\ last'.dialogs # <<>>
    /\ last'.dialogs[Len(last'.dialogs)] \in {"SaveFileAs", "ErrorSave"}

DisplayName(fp) == IF fp = NoPath THEN Untitled ELSE FileName(fp)

\* every tab title is the display name of the tab's path
TitleFollowsPath ==
    \A i \in 1..Len(tabs) : tabs[i].title = DisplayName(tabs[i].filePath)

\* C14: in every reachable state each tab title is the file name of the
\* session's path, or "Untitled" for an unbound session; and a successful
\* Save or Save As binds the saved session to the path written (the bound
\* path without a dialog for Save on a bound session, else the path chosen
\* in the dialog), sets its title to that file name and clears its modified
\* flag, leaving every other session as it was.
C14_TitleFollowsPath ==
    /\ []TitleFollowsPath
    /\ [][ (last'.op \in {"saveFile", "saveFileAs"} /\ last'.ok)
           => LET i == last'.idx
                  P == last'.path
              IN  /\ i = cur /\ cur' = cur
                  /\ last'.saved = {i}
                  /\ P # NoPath
                  /\ (last'.op = "saveFile" /\ tabs[i].filePath # NoPath)
                        => (P = tabs[i].filePath /\ last'.dialogs = <<>>)
                  /\ (last'.op = "saveFileAs" \/ tabs[i].filePath = NoPath)
                        => last'.dialogs = <<"SaveFileAs">>
                  /\ tabs' = [tabs EXCEPT ![i].filePath = P,
                                          ![i].title = FileName(P),
                                          ![i].modified = FALSE] ]_vars

\* Save on an unbound modified session wrote it to d/b.txt: its title is
\* now b.txt, while another session is still unbound and Untitled
C14_Witness ==
    /\ last.op = "saveFile"
    /\ last.ok
    /\ last.dialogs = <<"SaveFileAs">>
    /\ last.path = <<"d", "b.txt">>
    /\ Len(tabs) = 2
    /\ tabs[cur].title = "b.txt"
    /\ ~tabs[cur].modified
    /\ \E j \in 1..Len(tabs) : tabs[j].title = Untitled

\* the step delivers a file-open notification for path P that the
\* application object passes on unhandled
NotificationDropped ==
    /\ last'.op = "fileOpenEvent"
    /\ last'.path # NoPath

\* C15: a file-open notification for a readable path P, delivered at any
\* point after the application object exists, results in a session bound to
\* P that is active, as a user-initiated open of P does.
C15_NotificationNeverLost ==
    [][ (\/ NotificationDropped
         \/ /\ last'.op = "openFileFromEvent"
            /\ last'.fileOk)
        => /\ cur' # 0
           /\ tabs'[cur'].filePath = last'.path ]_vars

\* C15 once the window is registered: a notification is dropped only while
\* the application has no registered window, and every readable path handed
\* to openFileFromEvent ends bound to the active session
C15_HandledOnceRegistered ==
    [][ /\ NotificationDropped => (~mainWindow /\ UNCHANGED <<tabs, cur>>)
        /\ (last'.op = "openFileFromEvent" /\ last'.fileOk)
              => (cur' # 0 /\ tabs'[cur'].filePath = last'.path) ]_vars

\* the start-up timer has been started and has fired
TimerFired == phase # "start" /\ ~timerPending

\* the step is an openFileFromEvent that created a session
OpenCreated ==
    /\ last'.op = "openFileFromEvent"
    /\ Len(tabs') = Len(tabs) + 1

\* the flag and the timer, step by step: the timer is started once and
\* stops pending only by doLater, which runs only while it is pending;
\* doLater appends a blank unbound "Untitled" session and activates it when
\* the flag is set and changes no session otherwise; the flag is cleared by
\* exactly the opens that create a session and is never set again
FlagAndTimer ==
    /\ (timerPending' # timerPending)
          => \/ phase = "start" /\ timerPending'
             \/ last'.op = "doLater" /\ timerPending
    /\ last'.op = "doLater"
          => /\ timerPending /\ ~timerPending'
             /\ IF btrue
                THEN /\ tabs' = Append(tabs, Editor(<<>>, NoPath, Untitled))
                     /\ cur' = Len(tabs')
                ELSE UNCHANGED <<tabs, cur>>
    /\ OpenCreated => ~btrue'
    /\ (btrue' # btrue) => (btrue /\ OpenCreated)

\* C16 as stated: doLater runs exactly once, and adds the blank "Untitled"
\* session if and only if no open has created a session before it runs;
\* failed and re-activating opens do not clear the flag, and a cleared flag
\* is never set again.
C16_StartupOnce ==
    /\ [][FlagAndTimer]_vars
    /\ <>TimerFired

\* C16 with the run of doLater required only while the window is open:
\* doLater runs at most once, and exactly once unless the window close is
\* accepted before the timer fires; the rest as stated.
C16_StartupOnceUnlessClosed ==
    /\ [][FlagAndTimer]_vars
    /\ <>(TimerFired \/ phase = "closed")

\* the flag and the timer in the full editor
C16_FlagAndTimer == [][FlagAndTimer]_vars

\* doLater ran with the flag cleared by an earlier open and added nothing,
\* after another open had failed
C16_Witness ==
    /\ last.op = "doLater"
    /\ ~btrue
    /\ Len(tabs) = 1
    /\ tabs[1].filePath # NoPath
    /\ args = <<>>

\* between handlers the history has one saved text per tab
HistoryInStep == Idle => Len(savedText) = Len(tabs)

\* C17: a session is removed by closeTab, or a window close is accepted,
\* without the Save Changes question having been shown for that session,
\* only if the session's text equals the text it was created with or last
\* read from or wrote to a file.
C17_NoSilentLoss ==
    [][ /\ (last'.op = "closeTab" /\ last'.ok /\ last'.prompted = <<>>)
              => tabs[last'.idx].text = savedText[last'.idx]
        /\ (last'.op = "closeEvent" /\ last'.ok)
              => \A j \in 1..Len(tabs) :
                    (\A a \in 1..Len(last'.prompted) : last'.prompted[a] # j)
                       => tabs[j].text = savedText[j] ]_vars

\* what the code does guarantee: a session is removed by closeTab, or a
\* window close is accepted, without the question for that session only if
\* the session's modified flag is not set
C17_PromptFollowsFlag ==
    [][ /\ (last'.op = "closeTab" /\ last'.ok /\ last'.prompted = <<>>)
              => ~tabs[last'.idx].modified
        /\ (last'.op = "closeEvent" /\ last'.ok)
              => \A j \in 1..Len(tabs) :
                    (\A a \in 1..Len(last'.prompted) : last'.prompted[a] # j)
                       => ~tabs[j].modified ]_vars

====
